---- MODULE Spec2Model ----
(***************************************************************************)
(* Update pipeline of the stock tracker (src/main.go): the poller          *)
(* (fetchLoop) fetches each configured symbol, writes the ranked store     *)
(* and offers the result to the bounded channel `updates`; the broadcaster *)
(* drains the channel and writes each update to every registered           *)
(* connection; one handleWebSocket task per connection registers and       *)
(* unregisters it under the mutex clientsMux.                              *)
(*                                                                         *)
(* Variables that are not program state (history kept to state the         *)
(* properties) are marked "history" where they are declared.               *)
(***************************************************************************)
EXTENDS Integers, Sequences, FiniteSets, TLC

\* ------------------------------------------------------------------ bounds
\* connection objects ever created by upgrades
MaxConns == 2
\* successful provider answers before the provider only sends placeholders
MaxOk == 2
\* updates the broadcaster is followed through
MaxDeq == 2
\* entries still missing to a full channel in the backlog start state
BacklogGap == 1

\* ------------------------------------------------------- program constants
\* make(chan StockData, 128)
ChanCap == 128

Conns == 1..MaxConns

\* the broadcaster as the holder of clientsMux (the handlers hold it within one step)
BcTask == MaxConns + 1

\* ------------------------------------------------------------------ strings
\* strings.TrimSpace on the strings of the model: blanks trim to the empty
\* string, padded words to the word, everything else is already trimmed.
TrimSpace(s) ==
    CASE s = " " -> ""
      [] s = " MSFT " -> "MSFT"
      [] s = " demo " -> "demo"
      [] OTHER -> s

\* The numerals strconv.ParseFloat accepts, with their values.
Numerals == { <<"0", 0>>, <<"100", 100>>, <<"110", 110>> }

\* parseFloat: the parse error is dropped, and ParseFloat returns 0 with it.
parseFloat(s) ==
    IF \E n \in Numerals : n[1] = s
    THEN (CHOOSE n \in Numerals : n[1] = s)[2]
    ELSE 0

\* ------------------------------------------------------------- environment
\* ALPHA_VANTAGE_KEY values
KeyValues == { "", " ", " demo " }

\* STOCK_SYMBOLS values, as the list of their comma-separated fields
\* (strings.Split of the unset or empty variable gives the one field "").
SymbolsValues == { <<"">>, <<" MSFT ", " ">> }

DefaultSymbols == <<"AAPL", "GOOGL">>

\* getSymbols over the fields of STOCK_SYMBOLS: blank value or no non-blank
\* field gives the default list, otherwise the trimmed non-blank fields in
\* their order.
getSymbols(fields) ==
    LET trimmed == [i \in 1..Len(fields) |-> TrimSpace(fields[i])]
        out == SelectSeq(trimmed, LAMBDA p : p # "")
    IN IF Len(fields) = 1 /\ trimmed[1] = "" THEN DefaultSymbols
       ELSE IF Len(out) = 0 THEN DefaultSymbols
       ELSE out

AllSymbols == UNION { { getSymbols(f)[i] : i \in 1..Len(getSymbols(f)) } : f \in SymbolsValues }

\* ------------------------------------------------------------ quote client
PriceKey == "05. price"
PrevKey == "08. previous close"

\* "Global Quote" objects the provider sends: functions from field names to
\* strings.  <<>> is the missing or empty object.
Quotes ==
    { <<>>,
      (PriceKey :> "110") @@ (PrevKey :> "100"),
      (PriceKey :> "n/a") @@ (PrevKey :> "100"),
      (PriceKey :> "110") @@ (PrevKey :> "0"),
      (PriceKey :> "110") @@ (PrevKey :> "n/a"),
      (PriceKey :> "110") }

\* What one provider request can end in.
Responses ==
    { [kind |-> "neterr"], [kind |-> "badjson"] }
    \cup { [kind |-> "json", quote |-> q] : q \in Quotes }

\* Go map lookup: the zero value "" for a missing key.
Lookup(q, k) == IF k \in DOMAIN q THEN q[k] ELSE ""

NoData == [Symbol |-> "", Price |-> 0, Change |-> 0]

\* fetchStock(symbol) for the credential `key` and the provider's answer
\* `resp`: the triple (StockData, ok, err).  The quotes of the model divide
\* exactly, so the integer quotient is the float64 result.
fetchStock(symbol, key, resp) ==
    IF TrimSpace(key) = ""
    THEN [data |-> NoData, ok |-> FALSE, err |-> TRUE]
    ELSE IF resp.kind \in {"neterr", "badjson"}
    THEN [data |-> NoData, ok |-> FALSE, err |-> TRUE]
    ELSE IF DOMAIN resp.quote = {}
    THEN [data |-> NoData, ok |-> FALSE, err |-> FALSE]
    ELSE LET current == parseFloat(Lookup(resp.quote, PriceKey))
             previous == parseFloat(Lookup(resp.quote, PrevKey))
         IN IF previous = 0
            THEN [data |-> NoData, ok |-> FALSE, err |-> FALSE]
            ELSE [data |-> [Symbol |-> symbol, Price |-> current,
                            Change |-> ((current - previous) * 100) \div previous],
                  ok |-> TRUE, err |-> FALSE]

\* ---------------------------------------------------------- update channel
\* mutant: a full channel gives up its oldest entry for the new one
pushUpdate_DropOldest(ch, d) ==
    IF Len(ch) < ChanCap THEN Append(ch, d) ELSE Append(Tail(ch), d)

\* pushUpdate: select with default on the buffered channel: the send happens
\* when the buffer has room, otherwise the default branch does nothing.
pushUpdate(ch, d) ==
    IF Len(ch) < ChanCap THEN Append(ch, d) ELSE ch


\* mutant: the score is added to the member's score (ZINCRBY)
ZAdd_Incr(board, d) ==
    (d.Symbol :> (IF d.Symbol \in DOMAIN board THEN board[d.Symbol] ELSE 0) + d.Change)
        @@ board

\* ranked store: ZADD leaderboard score member overwrites the member's score
ZAdd(board, d) == (d.Symbol :> d.Change) @@ board

\* ------------------------------------------------------- ranked store read
\* The member names in byte order, for the ranking of members with equal scores.
MemberOrder == <<"AAPL", "GOOGL", "MSFT">>

Rank(m) == CHOOSE i \in 1..Len(MemberOrder) : MemberOrder[i] = m

\* Member n comes before member m in a reverse range: higher score first, and
\* for equal scores the name later in byte order first.
Above(board, n, m) ==
    \/ board[n] > board[m]
    \/ board[n] = board[m] /\ Rank(n) > Rank(m)

\* mutant: the range is read in ascending order (ZRANGE)
ZRangeWithScores(board) ==
    [i \in 1..Cardinality(DOMAIN board) |->
        LET m == CHOOSE m \in DOMAIN board :
                    Cardinality({n \in DOMAIN board : Above(board, m, n)}) = i - 1
        IN [Score |-> board[m], Member |-> m]]

\* ZRevRangeWithScores(ctx, "leaderboard", 0, -1).Val(): the whole sorted set
\* as a list of (Score, Member), the member with i-1 members before it at
\* position i.
ZRevRangeWithScores(board) ==
    [i \in 1..Cardinality(DOMAIN board) |->
        LET m == CHOOSE m \in DOMAIN board :
                    Cardinality({n \in DOMAIN board : Above(board, n, m)}) = i - 1
        IN [Score |-> board[m], Member |-> m]]

\* ------------------------------------------------------------------- state
VARIABLES
    env,            \* the process environment: [key, symbols]
    mainPc,         \* main: "boot", "fatal" (log.Fatal) or "serving"
    leaderboard,    \* the Redis sorted set: member -> score
    result,         \* the body of the last answer to GET /leaderboard
    updates,        \* the buffered channel, oldest first
    pollPc,         \* fetchLoop: "off", "start", "fetch", "zadd", "push", "tick"
    pollSyms,       \* the slice the running cycle ranges over
    pollIdx,        \* position of the running cycle in pollSyms (0: no cycle)
    data,           \* fetchLoop's data after a successful fetch
    quota,          \* provider answers with data still to come
    bcPc,           \* broadcaster: "off", "recv", "lock", "iter"
    bcData,         \* the update the broadcaster took from the channel
    bcTodo,         \* connections the range over clients has yet to produce
    clients,        \* the registry map's keys
    clientsMux,     \* 0: unlocked, BcTask: held by the broadcaster
    hPc,            \* handleWebSocket per connection
    peer,           \* per connection: "up" or "gone" (the remote end)
    closed,         \* per connection: conn.Close() was called
    nFetchOk,       \* history: successful fetches so far
    nZAdd,          \* history: ranked-store writes so far
    nPush,          \* history: pushUpdate calls so far
    nSent,          \* history: updates the channel accepted so far
    cycleFetched,   \* history: symbols fetched in the running or last cycle
    ticks,          \* history: whether the ticker has fired
    latest,         \* history: per symbol, id of its last successful fetch
    cycleBase,      \* history: successful fetches before the running cycle
                    \* (between cycles: before the next one)
    lastChange,     \* history: per symbol, <<Change>> of its last successful fetch
    nDeq,           \* history: updates taken from the channel so far
    bcStart,        \* history: the registry when the running iteration began
    bcDone,         \* history: connections written to in the running iteration
    lastOut         \* history: id of the update of the last write to any connection

pollerVars == <<pollPc, pollSyms, pollIdx, data, quota>>
storeVars == <<leaderboard, result>>
bcVars == <<bcPc, bcData, bcTodo>>
connVars == <<clients, clientsMux, hPc, peer, closed>>
pollHist == <<nFetchOk, nZAdd, nPush, nSent, cycleFetched, ticks, latest, cycleBase,
             lastChange>>
bcHist == <<nDeq, bcStart, bcDone, lastOut>>
vars == <<env, mainPc, leaderboard, result, updates, pollPc, pollSyms, pollIdx, data,
          quota, bcPc, bcData, bcTodo, clients, clientsMux, hPc, peer, closed,
          nFetchOk, nZAdd, nPush, nSent, cycleFetched, ticks, latest, cycleBase, lastChange,
          nDeq, bcStart, bcDone, lastOut>>

\* An update with the history id of the fetch that produced it.
Tag(d, n) == [Symbol |-> d.Symbol, Price |-> d.Price, Change |-> d.Change, id |-> n]

NoUpdate == Tag(NoData, 0)

\* The state when main is entered: package-level variables initialised, the
\* environment any of the modelled values.
Init ==
    /\ env \in [key : KeyValues, symbols : SymbolsValues]
    /\ mainPc = "boot"
    /\ leaderboard = <<>>
    /\ result = <<>>
    /\ updates = <<>>
    /\ pollPc = "off" /\ pollSyms = <<>> /\ pollIdx = 0 /\ data = NoUpdate
    /\ quota = MaxOk
    /\ bcPc = "off" /\ bcData = NoUpdate /\ bcTodo = {}
    /\ clients = {} /\ clientsMux = 0
    /\ hPc = [c \in Conns |-> "none"]
    /\ peer = [c \in Conns |-> "up"]
    /\ closed = [c \in Conns |-> FALSE]
    /\ nFetchOk = 0 /\ nZAdd = 0 /\ nPush = 0 /\ nSent = 0
    /\ cycleFetched = <<>> /\ ticks = FALSE
    /\ latest = [s \in AllSymbols |-> 0]
    /\ cycleBase = 0
    /\ lastChange = [s \in AllSymbols |-> <<>>]
    /\ nDeq = 0
    /\ bcStart = {} /\ bcDone = {}
    /\ lastOut = 0

\* -------------------------------------------------------------------- main
\* mutant: the missing credential is only logged and main goes on
MainFatal_LogsOnly ==
    /\ mainPc = "boot"
    /\ TrimSpace(env.key) = ""
    /\ mainPc' = "serving"
    /\ bcPc' = "recv"
    /\ pollPc' = "start"
    /\ UNCHANGED <<env, storeVars, updates, pollSyms, pollIdx, data, quota, bcData, bcTodo,
                   connVars, pollHist, bcHist>>

\* main with the credential missing: log.Fatal ends the process.
MainFatal ==
    /\ mainPc = "boot"
    /\ TrimSpace(env.key) = ""
    /\ mainPc' = "fatal"
    /\ UNCHANGED <<env, storeVars, updates, pollerVars, bcVars, connVars, pollHist, bcHist>>

\* main with the credential set: starts broadcaster and fetchLoop, then serves.
MainServe ==
    /\ mainPc = "boot"
    /\ TrimSpace(env.key) # ""
    /\ mainPc' = "serving"
    /\ bcPc' = "recv"
    /\ pollPc' = "start"
    /\ UNCHANGED <<env, storeVars, updates, pollSyms, pollIdx, data, quota, bcData, bcTodo,
                   connVars, pollHist, bcHist>>

\* ---------------------------------------------------------------- fetchLoop
\* mutant: the first cycle, too, waits for a tick of the ticker
UpdateBegin_WaitsForTick ==
    /\ pollPc \in {"start", "tick"}
    /\ pollSyms' = getSymbols(env.symbols)
    /\ pollIdx' = 1
    /\ pollPc' = "fetch"
    /\ cycleFetched' = <<>>
    /\ ticks' = TRUE
    /\ UNCHANGED <<env, mainPc, storeVars, updates, data, quota, bcVars, connVars,
                   nFetchOk, nZAdd, nPush, nSent, latest, cycleBase, lastChange,
                   bcHist>>

\* mutant: the cycle ranges over the configured symbols from the last to the first
UpdateBegin_Reversed ==
    /\ pollPc \in {"start", "tick"}
    /\ pollSyms' = [i \in 1..Len(getSymbols(env.symbols)) |->
                       getSymbols(env.symbols)[Len(getSymbols(env.symbols)) + 1 - i]]
    /\ pollIdx' = 1
    /\ pollPc' = "fetch"
    /\ cycleFetched' = <<>>
    /\ ticks' = (ticks \/ pollPc = "tick")
    /\ UNCHANGED <<env, mainPc, storeVars, updates, data, quota, bcVars, connVars,
                   nFetchOk, nZAdd, nPush, nSent, latest, cycleBase, lastChange,
                   bcHist>>

\* update() is entered: at once after start, and on every tick afterwards.
UpdateBegin ==
    /\ pollPc \in {"start", "tick"}
    /\ pollSyms' = getSymbols(env.symbols)
    /\ pollIdx' = 1
    /\ pollPc' = "fetch"
    /\ cycleFetched' = <<>>
    /\ ticks' = (ticks \/ pollPc = "tick")
    /\ UNCHANGED <<env, mainPc, storeVars, updates, data, quota, bcVars, connVars,
                   nFetchOk, nZAdd, nPush, nSent, latest, cycleBase, lastChange,
                   bcHist>>

\* The loop moves to the next symbol, or update() returns to wait for a tick.
\* (Asserted as part of the actions below.)
NextSymbol ==
    IF pollIdx < Len(pollSyms)
    THEN pollIdx' = pollIdx + 1 /\ pollPc' = "fetch" /\ cycleBase' = cycleBase
    ELSE pollIdx' = 0 /\ pollPc' = "tick" /\ cycleBase' = nFetchOk

\* mutant: an error ends the cycle (break instead of continue)
AfterFetch_ErrorBreaks(r) ==
    IF r.err
    THEN /\ pollIdx' = 0 /\ pollPc' = "tick" /\ cycleBase' = nFetchOk
         /\ UNCHANGED <<data, quota, nFetchOk, latest, lastChange>>
    ELSE IF ~r.ok
    THEN /\ NextSymbol
         /\ UNCHANGED <<data, quota, nFetchOk, latest, lastChange>>
    ELSE /\ pollPc' = "zadd"
         /\ data' = Tag(r.data, nFetchOk + 1)
         /\ quota' = quota - 1
         /\ nFetchOk' = nFetchOk + 1
         /\ latest' = [latest EXCEPT ![r.data.Symbol] = nFetchOk + 1]
         /\ lastChange' = [lastChange EXCEPT ![r.data.Symbol] = <<r.data.Change>>]
         /\ UNCHANGED <<pollIdx, cycleBase>>

\* mutant: the !ok check is missing, so an empty answer's zero value is
\* written and offered like a quote
AfterFetch_NoOkCheck(r) ==
    IF r.err
    THEN /\ NextSymbol
         /\ UNCHANGED <<data, quota, nFetchOk, latest, lastChange>>
    ELSE /\ pollPc' = "zadd"
         /\ data' = Tag(r.data, nFetchOk + 1)
         /\ quota' = quota
         /\ nFetchOk' = nFetchOk + 1
         /\ latest' = latest
         /\ lastChange' = lastChange
         /\ UNCHANGED <<pollIdx, cycleBase>>

\* What the loop body does with fetchStock's result r: `continue` on an error
\* (logged) and on !ok, otherwise on to the ranked-store write.
AfterFetch(r) ==
    IF r.err \/ ~r.ok
    THEN /\ NextSymbol
         /\ UNCHANGED <<data, quota, nFetchOk, latest, lastChange>>
    ELSE /\ pollPc' = "zadd"
         /\ data' = Tag(r.data, nFetchOk + 1)
         /\ quota' = quota - 1
         /\ nFetchOk' = nFetchOk + 1
         /\ latest' = [latest EXCEPT ![r.data.Symbol] = nFetchOk + 1]
         /\ lastChange' = [lastChange EXCEPT ![r.data.Symbol] = <<r.data.Change>>]
         /\ UNCHANGED <<pollIdx, cycleBase>>

\* data, ok, err := fetchStock(symbol), for any answer of the provider
FetchStock ==
    /\ pollPc = "fetch"
    /\ \E r \in { fetchStock(pollSyms[pollIdx], env.key, resp) : resp \in Responses } :
         /\ r.ok => quota > 0
         /\ AfterFetch(r)
    /\ cycleFetched' = Append(cycleFetched, pollSyms[pollIdx])
    /\ UNCHANGED <<env, mainPc, storeVars, updates, pollSyms, bcVars, connVars,
                   nZAdd, nPush, nSent, ticks, bcHist>>

\* mutant: the ranked-store write is skipped when the channel has no room
StoreWrite_SkipWhenFull ==
    /\ pollPc = "zadd"
    /\ leaderboard' = IF Len(updates) < ChanCap THEN ZAdd(leaderboard, data) ELSE leaderboard
    /\ nZAdd' = IF Len(updates) < ChanCap THEN nZAdd + 1 ELSE nZAdd
    /\ pollPc' = "push"
    /\ UNCHANGED <<env, mainPc, result, updates, pollSyms, pollIdx, data, quota, bcVars,
                   connVars, nFetchOk, nPush, nSent, cycleFetched, ticks, latest, cycleBase,
                   lastChange, bcHist>>

\* redisClient.ZAdd(ctx, "leaderboard", {Score: data.Change, Member: data.Symbol})
StoreWrite ==
    /\ pollPc = "zadd"
    /\ leaderboard' = ZAdd(leaderboard, data)
    /\ nZAdd' = nZAdd + 1
    /\ pollPc' = "push"
    /\ UNCHANGED <<env, mainPc, result, updates, pollSyms, pollIdx, data, quota, bcVars,
                   connVars, nFetchOk, nPush, nSent, cycleFetched, ticks, latest, cycleBase,
                   lastChange, bcHist>>

\* mutant: updates with a falling price are not offered to the channel
PushUpdate_GainersOnly ==
    /\ pollPc = "push"
    /\ updates' = IF data.Change < 0 THEN updates ELSE pushUpdate(updates, data)
    /\ nPush' = IF data.Change < 0 THEN nPush ELSE nPush + 1
    /\ nSent' = nSent + (Len(updates') - Len(updates))
    /\ NextSymbol
    /\ UNCHANGED <<env, mainPc, storeVars, pollSyms, data, quota, bcVars, connVars,
                   nFetchOk, nZAdd, cycleFetched, ticks, latest, lastChange, bcHist>>

\* mutant: the poller takes clientsMux around the push
PushUpdate_UnderLock ==
    /\ pollPc = "push"
    /\ clientsMux = 0
    /\ updates' = pushUpdate(updates, data)
    /\ nPush' = nPush + 1
    /\ nSent' = nSent + (Len(updates') - Len(updates))
    /\ NextSymbol
    /\ UNCHANGED <<env, mainPc, storeVars, pollSyms, data, quota, bcVars, connVars,
                   nFetchOk, nZAdd, cycleFetched, ticks, latest, lastChange, bcHist>>

\* pushUpdate(data), then the loop goes on
PushUpdate ==
    /\ pollPc = "push"
    /\ updates' = pushUpdate(updates, data)
    /\ nPush' = nPush + 1
    /\ nSent' = nSent + (Len(updates') - Len(updates))
    /\ NextSymbol
    /\ UNCHANGED <<env, mainPc, storeVars, pollSyms, data, quota, bcVars, connVars,
                   nFetchOk, nZAdd, cycleFetched, ticks, latest, lastChange, bcHist>>


\* -------------------------------------------------------------- broadcaster
\* mutant: the receive takes the newest buffered update first
Dequeue_Newest ==
    /\ bcPc = "recv"
    /\ updates # <<>>
    /\ nDeq < MaxDeq
    /\ bcData' = updates[Len(updates)]
    /\ updates' = SubSeq(updates, 1, Len(updates) - 1)
    /\ bcPc' = "lock"
    /\ nDeq' = nDeq + 1
    /\ UNCHANGED <<env, mainPc, storeVars, pollerVars, bcTodo, connVars, pollHist,
                   bcStart, bcDone, lastOut>>

\* mutant: the receive keeps only the newest buffered update
Dequeue_Conflate ==
    /\ bcPc = "recv"
    /\ updates # <<>>
    /\ nDeq < MaxDeq
    /\ bcData' = updates[Len(updates)]
    /\ updates' = <<>>
    /\ bcPc' = "lock"
    /\ nDeq' = nDeq + 1
    /\ UNCHANGED <<env, mainPc, storeVars, pollerVars, bcTodo, connVars, pollHist,
                   bcStart, bcDone, lastOut>>

\* mutant: the receive leaves the update in the channel
Dequeue_Peek ==
    /\ bcPc = "recv"
    /\ updates # <<>>
    /\ nDeq < MaxDeq
    /\ bcData' = Head(updates)
    /\ updates' = updates
    /\ bcPc' = "lock"
    /\ nDeq' = nDeq + 1
    /\ UNCHANGED <<env, mainPc, storeVars, pollerVars, bcTodo, connVars, pollHist,
                   bcStart, bcDone, lastOut>>

\* for data := range updates: the receive blocks while the channel is empty
Dequeue ==
    /\ bcPc = "recv"
    /\ updates # <<>>
    /\ nDeq < MaxDeq
    /\ bcData' = Head(updates)
    /\ updates' = Tail(updates)
    /\ bcPc' = "lock"
    /\ nDeq' = nDeq + 1
    /\ UNCHANGED <<env, mainPc, storeVars, pollerVars, bcTodo, connVars, pollHist,
                   bcStart, bcDone, lastOut>>

\* clientsMux.Lock(), and the range over clients starts
BroadcastLock ==
    /\ bcPc = "lock"
    /\ clientsMux = 0
    /\ clientsMux' = BcTask
    /\ bcTodo' = clients
    /\ bcStart' = clients
    /\ bcDone' = {}
    /\ bcPc' = "iter"
    /\ UNCHANGED <<env, mainPc, storeVars, updates, pollerVars, bcData, clients, hPc, peer,
                   closed, pollHist, nDeq, lastOut>>

\* mutant: the range is left after a failed write (return instead of going on)
OnWriteError_Returns(c) ==
    /\ closed' = [closed EXCEPT ![c] = TRUE]
    /\ clients' = clients \ {c}
    /\ bcTodo' = {}

\* mutant: the connection is closed but stays in the registry
OnWriteError_NoDelete(c) ==
    /\ closed' = [closed EXCEPT ![c] = TRUE]
    /\ clients' = clients
    /\ bcTodo' = bcTodo \ {c}

\* What a failed WriteJSON to c leads to: conn.Close() and delete(clients,
\* conn); the range goes on with the connections it has yet to produce.
OnWriteError(c) ==
    /\ closed' = [closed EXCEPT ![c] = TRUE]
    /\ clients' = clients \ {c}
    /\ bcTodo' = bcTodo \ {c}

\* The write went through: the range goes on.
OnWriteOk(c) ==
    /\ bcTodo' = bcTodo \ {c}
    /\ UNCHANGED <<closed, clients>>

\* One turn of the range over clients: conn.WriteJSON(data) to the connection
\* the range produces (the order of a Go map range is unspecified).  The write
\* fails on a connection that was closed here and may fail once the remote end
\* is gone; it succeeds otherwise.
BroadcastWrite(c) ==
    /\ bcPc = "iter"
    /\ c \in bcTodo
    /\ bcDone' = bcDone \cup {c}
    /\ lastOut' = bcData.id
    /\ \/ /\ ~closed[c]
          /\ OnWriteOk(c)
       \/ /\ closed[c] \/ peer[c] = "gone"
          /\ OnWriteError(c)
    /\ UNCHANGED <<env, mainPc, storeVars, updates, pollerVars, bcPc, bcData, clientsMux,
                   hPc, peer, pollHist, nDeq, bcStart>>

\* the range is over: clientsMux.Unlock(), back to the receive
BroadcastUnlock ==
    /\ bcPc = "iter"
    /\ bcTodo = {}
    /\ clientsMux' = 0
    /\ bcPc' = "recv"
    /\ bcStart' = {} /\ bcDone' = {}
    /\ UNCHANGED <<env, mainPc, storeVars, updates, pollerVars, bcData, bcTodo, clients,
                   hPc, peer, closed, pollHist, nDeq, lastOut>>

\* ---------------------------------------------------------- handleWebSocket
\* mutant: the connection is added without taking clientsMux
HandlerAdd_NoLock(c) ==
    /\ mainPc = "serving"
    /\ hPc[c] = "none"
    /\ \A d \in Conns : d < c => hPc[d] # "none"
    /\ clients' = clients \cup {c}
    /\ hPc' = [hPc EXCEPT ![c] = "read"]
    /\ UNCHANGED <<env, mainPc, storeVars, updates, pollerVars, bcVars, clientsMux, peer,
                   closed, pollHist, bcHist>>

\* mutant: the handler greets the new connection with the last update taken
\* from the channel
HandlerAdd_SendsLast(c) ==
    /\ mainPc = "serving"
    /\ hPc[c] = "none"
    /\ \A d \in Conns : d < c => hPc[d] # "none"
    /\ clientsMux = 0
    /\ clients' = clients \cup {c}
    /\ hPc' = [hPc EXCEPT ![c] = "read"]
    /\ bcDone' = bcDone \cup {c}
    /\ lastOut' = bcData.id
    /\ UNCHANGED <<env, mainPc, storeVars, updates, pollerVars, bcVars, clientsMux, peer,
                   closed, pollHist, nDeq, bcStart>>

\* GET /ws: upgrader.Upgrade gives a new connection (when the upgrade fails
\* the handler logs and returns: no state changes), then clientsMux.Lock();
\* clients[conn] = true; clientsMux.Unlock(), and the read loop starts.  Until
\* the add nothing but the handler refers to the connection; Lock() returns
\* only while nobody holds the mutex.  Connection objects are taken in the
\* order of their numbers.
HandlerAdd(c) ==
    /\ mainPc = "serving"
    /\ hPc[c] = "none"
    /\ \A d \in Conns : d < c => hPc[d] # "none"
    /\ clientsMux = 0
    /\ clients' = clients \cup {c}
    /\ hPc' = [hPc EXCEPT ![c] = "read"]
    /\ UNCHANGED <<env, mainPc, storeVars, updates, pollerVars, bcVars, clientsMux, peer,
                   closed, pollHist, bcHist>>

\* The remote end closes or is lost.
PeerGone(c) ==
    /\ hPc[c] = "read"
    /\ peer[c] = "up"
    /\ peer' = [peer EXCEPT ![c] = "gone"]
    /\ UNCHANGED <<env, mainPc, storeVars, updates, pollerVars, bcVars, clients, clientsMux,
                   hPc, closed, pollHist, bcHist>>

\* conn.ReadMessage() returns an error (remote end gone, or the connection
\* closed by the broadcaster): the handler returns and its deferred function runs.
ReadError(c) ==
    /\ hPc[c] = "read"
    /\ peer[c] = "gone" \/ closed[c]
    /\ hPc' = [hPc EXCEPT ![c] = "remove"]
    /\ UNCHANGED <<env, mainPc, storeVars, updates, pollerVars, bcVars, clients, clientsMux,
                   peer, closed, pollHist, bcHist>>

\* mutant: the deferred function closes the connection and leaves it registered
HandlerDefer_CloseOnly(c) ==
    /\ hPc[c] = "remove"
    /\ clientsMux = 0
    /\ clients' = clients
    /\ closed' = [closed EXCEPT ![c] = TRUE]
    /\ hPc' = [hPc EXCEPT ![c] = "done"]
    /\ UNCHANGED <<env, mainPc, storeVars, updates, pollerVars, bcVars, clientsMux, peer,
                   pollHist, bcHist>>

\* mutant: removing a connection that is no longer registered takes out
\* another one instead
HandlerDefer_TakesAnother(c) ==
    /\ hPc[c] = "remove"
    /\ clientsMux = 0
    /\ clients' = IF c \in clients \/ clients = {} THEN clients \ {c}
                  ELSE clients \ {CHOOSE d \in clients : TRUE}
    /\ closed' = [closed EXCEPT ![c] = TRUE]
    /\ hPc' = [hPc EXCEPT ![c] = "done"]
    /\ UNCHANGED <<env, mainPc, storeVars, updates, pollerVars, bcVars, clientsMux, peer,
                   pollHist, bcHist>>

\* The deferred function: clientsMux.Lock(); delete(clients, conn);
\* clientsMux.Unlock(); conn.Close().  Nothing but the handler refers to the
\* connection once it is out of the registry.
HandlerDefer(c) ==
    /\ hPc[c] = "remove"
    /\ clientsMux = 0
    /\ clients' = clients \ {c}
    /\ closed' = [closed EXCEPT ![c] = TRUE]
    /\ hPc' = [hPc EXCEPT ![c] = "done"]
    /\ UNCHANGED <<env, mainPc, storeVars, updates, pollerVars, bcVars, clientsMux, peer,
                   pollHist, bcHist>>

\* ------------------------------------------------------------- GET /leaderboard
\* The route's handler: reads the whole sorted set, highest score first, and
\* answers with it.  It changes nothing the tasks read, and no task reads its
\* answer; the specification SpecStore follows it next to the poller.
GetLeaderboard ==
    /\ mainPc = "serving"
    /\ result' = ZRevRangeWithScores(leaderboard)
    /\ UNCHANGED <<env, mainPc, leaderboard, updates, pollerVars, bcVars, connVars,
                   pollHist, bcHist>>

\* ----------------------------------------------------------- specification
main == MainFatal \/ MainServe

fetchLoop == UpdateBegin \/ FetchStock \/ StoreWrite \/ PushUpdate

broadcaster ==
    \/ Dequeue
    \/ BroadcastLock
    \/ \E c \in Conns : BroadcastWrite(c)
    \/ BroadcastUnlock

handleWebSocket(c) ==
    \/ HandlerAdd(c)
    \/ ReadError(c)
    \/ HandlerDefer(c)

Run ==
    \/ fetchLoop
    \/ broadcaster
    \/ \E c \in Conns : handleWebSocket(c) \/ PeerGone(c)

Next == main \/ Run

Spec == Init /\ [][Next]_vars

\* The Go scheduler runs every goroutine that can take a step: main, the
\* poller (the ticker keeps firing, provider requests return), the
\* broadcaster (a write returns or fails) and every handler whose read has
\* returned an error.  New connections and remote ends going away are up to
\* the clients.
Fairness ==
    /\ WF_vars(main)
    /\ WF_vars(fetchLoop)
    /\ WF_vars(broadcaster)
    /\ \A c \in Conns : WF_vars(ReadError(c) \/ HandlerDefer(c))

\* The liveness checks follow the runs with STOCK_SYMBOLS set to one symbol.
InitOneSymbol == Init /\ Len(getSymbols(env.symbols)) = 1

FairSpec == InitOneSymbol /\ [][Next]_vars /\ Fairness

\* A state the running program reaches when the broadcaster falls behind: the
\* credential is set, the default symbols are polled, every cycle so far has
\* fetched AAPL with the same quote and failed on GOOGL, the broadcaster has
\* not taken anything yet, and the channel is BacklogGap short of full.  One
\* connection is still to come; the others have come and gone.
Backlog == ChanCap - BacklogGap

BacklogData == [Symbol |-> "AAPL", Price |-> 110, Change |-> 10]

InitBacklog ==
    /\ env = [key |-> " demo ", symbols |-> <<"">>]
    /\ mainPc = "serving"
    /\ leaderboard = ZAdd(<<>>, BacklogData)
    /\ result = <<>>
    /\ updates = [i \in 1..Backlog |-> Tag(BacklogData, i)]
    /\ pollPc = "tick" /\ pollSyms = DefaultSymbols /\ pollIdx = 0
    /\ data = Tag(BacklogData, Backlog)
    /\ quota = MaxOk
    /\ bcPc = "recv" /\ bcData = NoUpdate /\ bcTodo = {}
    /\ clients = {} /\ clientsMux = 0
    /\ hPc = [c \in Conns |-> IF c = 1 THEN "none" ELSE "done"]
    /\ peer = [c \in Conns |-> IF c = 1 THEN "up" ELSE "gone"]
    /\ closed = [c \in Conns |-> c # 1]
    /\ nFetchOk = Backlog /\ nZAdd = Backlog /\ nPush = Backlog /\ nSent = Backlog
    /\ cycleFetched = DefaultSymbols /\ ticks = TRUE
    /\ latest = [s \in AllSymbols |-> IF s = "AAPL" THEN Backlog ELSE 0]
    /\ cycleBase = Backlog
    /\ lastChange = [s \in AllSymbols |-> IF s = "AAPL" THEN <<BacklogData.Change>> ELSE <<>>]
    /\ nDeq = 0
    /\ bcStart = {} /\ bcDone = {}
    /\ lastOut = 0

SpecBacklog == InitBacklog /\ [][Run]_vars

\* The ranked store outlives the process: what main finds in it was left by
\* earlier runs, with any of the symbols and scores below.
StoreScores == {-2, 5, 10}

Boards == UNION { [m -> StoreScores] : m \in SUBSET AllSymbols }

InitStore ==
    /\ env \in [key : KeyValues, symbols : SymbolsValues]
    /\ mainPc = "boot"
    /\ leaderboard \in Boards
    /\ result = <<>>
    /\ updates = <<>>
    /\ pollPc = "off" /\ pollSyms = <<>> /\ pollIdx = 0 /\ data = NoUpdate
    /\ quota = MaxOk
    /\ bcPc = "off" /\ bcData = NoUpdate /\ bcTodo = {}
    /\ clients = {} /\ clientsMux = 0
    /\ hPc = [c \in Conns |-> "none"]
    /\ peer = [c \in Conns |-> "up"]
    /\ closed = [c \in Conns |-> FALSE]
    /\ nFetchOk = 0 /\ nZAdd = 0 /\ nPush = 0 /\ nSent = 0
    /\ cycleFetched = <<>> /\ ticks = FALSE
    /\ latest = [s \in AllSymbols |-> 0]
    /\ cycleBase = 0
    /\ lastChange = [s \in AllSymbols |-> <<>>]
    /\ nDeq = 0
    /\ bcStart = {} /\ bcDone = {}
    /\ lastOut = 0

\* main, the poller and the leaderboard route
SpecStore == InitStore /\ [][main \/ fetchLoop \/ GetLeaderboard]_vars

\* The backlog runs in which only the poller is sure to be scheduled: the
\* broadcaster may stay inside a write for ever (a remote end that does not
\* read), holding clientsMux.
SpecStalled == InitBacklog /\ [][Run]_vars /\ WF_vars(fetchLoop)

\* ================================================================== claims
\* A step of fetchLoop that is a call of pushUpdate.
PushStep == pollPc = "push" /\ nPush' = nPush + 1

\* C1: pushUpdate never blocks the poller: whenever the poller is at the
\* call, the call can complete, and it completes in one step; on a channel
\* holding ChanCap (128) updates the channel is left exactly as it was and
\* the offered update is gone, otherwise the update is appended at the tail.
C1_PushNeverBlocks ==
    /\ [](pollPc = "push" => ENABLED PushUpdate)
    /\ [][PushStep =>
            /\ pollPc' # "push"
            /\ Len(updates) = ChanCap => updates' = updates
            /\ Len(updates) < ChanCap => updates' = Append(updates, data)]_vars

\* C1 witness: a push has met the full channel and was discarded.
C1_Witness == Len(updates) = ChanCap /\ nPush > nSent /\ pollPc # "push"

\* C2: ranked-store writes equal successful fetches whatever the channel's
\* fill level: between symbols the two counts agree; at the push of a symbol
\* its write is done (the store holds its score) and its push is the one
\* still missing; a push, dropped or not, leaves the ranked store alone.
C2_WritesEqualFetches ==
    /\ [](pollPc \in {"fetch", "tick"} => nZAdd = nFetchOk)
    /\ [](pollPc = "zadd" => nZAdd + 1 = nFetchOk /\ nPush = nZAdd)
    /\ [](pollPc = "push" =>
            /\ nZAdd = nFetchOk
            /\ nPush + 1 = nZAdd
            /\ data.Symbol \in DOMAIN leaderboard
            /\ leaderboard[data.Symbol] = data.Change)
    /\ [][PushStep => leaderboard' = leaderboard /\ nZAdd' = nZAdd]_vars

\* C2 witness: a cycle has ended in which an update was dropped at the full
\* channel, after its write.
C2_Witness ==
    /\ pollPc = "tick"
    /\ Len(updates) = ChanCap
    /\ nPush > nSent
    /\ nZAdd = nFetchOk
    /\ leaderboard[data.Symbol] = data.Change

\* C3 as claimed: between symbols, every successful fetch has put one update
\* on the channel.
C3_OneEnqueuedPerFetch == pollPc \in {"fetch", "tick"} => nSent = nFetchOk

\* C3 as amended: every successful fetch leads to exactly one call of
\* pushUpdate, which puts the update on the channel once when the channel has
\* room and not at all when it is full.
C3_OnePushPerFetch ==
    /\ [](pollPc \in {"fetch", "tick"} => nPush = nFetchOk)
    /\ [](pollPc \in {"zadd", "push"} => nPush + 1 = nFetchOk)
    /\ [][PushStep =>
            nSent' = nSent + (IF Len(updates) < ChanCap THEN 1 ELSE 0)]_vars
    /\ [](\A i \in 1..(Len(updates) - 1) : updates[i].id < updates[i + 1].id)

\* C3 witness: two fetches of one cycle succeeded; the first update went on
\* the channel, the second met the full channel.
C3_Witness ==
    /\ pollPc = "tick"
    /\ nFetchOk = Backlog + 2
    /\ nPush = nFetchOk
    /\ nSent = Backlog + 1
    /\ latest["AAPL"] + 1 = latest["GOOGL"]

\* The provider answers the claim C4 is about: a transport or decoding error,
\* an empty quote object, a previous close that reads as zero.
FailedResponses ==
    { r \in Responses :
        \/ r.kind \in {"neterr", "badjson"}
        \/ r.kind = "json" /\ DOMAIN r.quote = {}
        \/ r.kind = "json" /\ parseFloat(Lookup(r.quote, PrevKey)) = 0 }

\* C4: a fetch that ends in an error, an empty answer or a previous close of
\* zero leaves ranked store and channel as they were, and the loop goes on to
\* the next symbol (or the cycle ends) without write or push for the symbol.
C4_FailedFetchWritesNothing ==
    [][\A resp \in FailedResponses :
         (pollPc = "fetch" /\ AfterFetch(fetchStock(pollSyms[pollIdx], env.key, resp))) =>
            /\ leaderboard' = leaderboard
            /\ updates' = updates
            /\ nZAdd' = nZAdd /\ nPush' = nPush /\ nFetchOk' = nFetchOk
            /\ pollPc' \in {"fetch", "tick"}]_vars

\* C4 witness: a whole cycle of failed fetches is over, nothing was written
\* or offered.
C4_Witness ==
    /\ pollPc = "tick"
    /\ cycleFetched = pollSyms
    /\ nFetchOk = 0 /\ nZAdd = 0 /\ nPush = 0
    /\ leaderboard = <<>> /\ updates = <<>>

\* C5: every cycle fetches every configured symbol, in order, whatever the
\* outcome for the symbols before it: inside a cycle the symbols fetched are
\* the ones before the current position, at its end all of them; the poller,
\* once started, always has a next step.
C5_EverySymbolFetched ==
    /\ pollPc \in {"fetch", "zadd", "push"} =>
          /\ pollSyms = getSymbols(env.symbols)
          /\ pollIdx \in 1..Len(pollSyms)
          /\ cycleFetched =
               SubSeq(pollSyms, 1, IF pollPc = "fetch" THEN pollIdx - 1 ELSE pollIdx)
    /\ pollPc = "tick" => cycleFetched = getSymbols(env.symbols)
    /\ pollPc # "off" => ENABLED fetchLoop

\* C5 witness: a cycle is over in which the first symbol failed and the
\* second was fetched successfully all the same.
C5_Witness ==
    /\ pollPc = "tick"
    /\ Len(cycleFetched) = 2
    /\ latest[cycleFetched[1]] = 0
    /\ latest[cycleFetched[2]] > 0

\* A step that is a WriteJSON to connection c, and one that fails.
WriteStep(c) == c \in bcDone' /\ c \notin bcDone

WriteFailed(c) == WriteStep(c) /\ closed'[c] /\ ~closed[c]

\* C6: a failed delivery closes and removes that subscriber in the same step
\* of the iteration and nothing else: the other subscribers stay registered
\* and stay to be written; the iteration ends only when the update was
\* written to every subscriber registered at its start, and the broadcaster
\* then waits for the next update.
C6_FailureIsolated ==
    /\ [][\A c \in Conns : WriteFailed(c) =>
            /\ clients' = clients \ {c}
            /\ bcTodo' = bcTodo \ {c}
            /\ closed' = [closed EXCEPT ![c] = TRUE]
            /\ bcPc' = "iter"]_vars
    /\ [](bcPc = "iter" =>
            /\ bcTodo \cup bcDone = bcStart
            /\ bcTodo \cap bcDone = {}
            /\ ENABLED broadcaster)
    /\ [][bcPc = "iter" /\ bcPc' # "iter" =>
            bcDone = bcStart /\ bcPc' = "recv" /\ clientsMux' = 0]_vars

\* C6 witness: an iteration over two subscribers is complete; the write to
\* one failed (closed, removed, its handler still reading), the other was
\* written and is still registered.
C6_Witness ==
    /\ bcPc = "iter" /\ bcTodo = {}
    /\ \E c, d \in bcStart :
         /\ c # d
         /\ c \in bcDone /\ d \in bcDone
         /\ closed[c] /\ c \notin clients /\ hPc[c] = "read"
         /\ ~closed[d] /\ d \in clients

\* C7: a subscriber whose delivery failed (it is closed from then on) is not
\* in the registry, is not among the connections an iteration has yet to
\* write, is never written again and is never registered again, wherever its
\* own handler is.
C7_FailedNeverWrittenAgain ==
    /\ [](\A c \in Conns : closed[c] => c \notin clients /\ c \notin bcTodo)
    /\ [][\A c \in Conns : WriteStep(c) => ~closed[c] /\ c \in clients]_vars
    /\ [][\A c \in Conns : c \in clients' /\ c \notin clients => hPc[c] = "none"]_vars

\* C7 witness: the next update has been broadcast to the subscribers left,
\* while the one whose delivery failed before is out of the registry and its
\* handler has not even returned from its read.
C7_Witness ==
    /\ bcPc = "iter" /\ bcStart # {} /\ bcDone = bcStart
    /\ nDeq >= 2
    /\ \E c \in Conns \ bcStart : closed[c] /\ hPc[c] = "read"

\* C8 as claimed: while the broadcaster is not inside an iteration, every
\* registered connection is live (remote end up) and writable (not closed).
C8_RegistryLiveWritable ==
    bcPc # "iter" => \A c \in clients : peer[c] = "up" /\ ~closed[c]

\* C8 as amended: while the broadcaster is not inside an iteration, every
\* registered connection is one the server has not closed (so no write to it
\* has failed) and whose handler has not run its deferred removal.
C8_RegistryNotClosed ==
    bcPc # "iter" => \A c \in clients : ~closed[c] /\ hPc[c] \in {"read", "remove"}

\* C8 witness: between two iterations the registry holds a connection whose
\* remote end is gone, next to one evicted by the iteration just over.
C8_Witness ==
    /\ bcPc = "recv" /\ nDeq >= 1
    /\ \E c \in clients : peer[c] = "gone" /\ ~closed[c]
    /\ \E d \in Conns \ clients : closed[d] /\ hPc[d] = "read"

\* C9: updates are written in the order the channel accepted them: the
\* channel holds them oldest first, behind the one being broadcast; the
\* broadcaster takes the oldest, and only between iterations; every write of
\* an iteration writes that iteration's update, which is never older than
\* the update of any earlier write.
C9_InOrderDelivery ==
    /\ [](\A i \in 1..(Len(updates) - 1) : updates[i].id < updates[i + 1].id)
    /\ [](updates # <<>> => bcData.id < Head(updates).id)
    /\ [][nDeq' # nDeq =>
            bcPc = "recv" /\ bcData' = Head(updates) /\ updates' = Tail(updates)]_vars
    /\ [][\A c \in Conns : WriteStep(c) =>
            /\ bcPc = "iter" /\ bcData' = bcData
            /\ lastOut <= bcData.id
            /\ lastOut' = bcData.id]_vars

\* C9 witness: the only connection there has been was written update 1 and is
\* about to be written update 2.
C9_Witness ==
    /\ bcPc = "iter" /\ bcData.id = 2 /\ lastOut = 1
    /\ bcTodo = {1} /\ ~closed[1]
    /\ \A c \in Conns \ {1} : hPc[c] = "none"

InChannel(k) == \E i \in 1..Len(updates) : updates[i].id = k

\* C10 as claimed: a subscriber that stays registered is eventually written
\* the update of the most recent successful fetch of every symbol fetched.
C10_EventualLatest ==
    \A c \in Conns : \A s \in AllSymbols : \A k \in 1..MaxOk :
        <>[](c \in clients /\ latest[s] = k)
            => <>(bcData.id = k /\ c \in bcDone /\ c \in clients)

\* C10 as amended: every update the channel accepted is eventually taken by
\* the broadcaster and written to every subscriber that is registered when
\* its iteration begins.
C10_AcceptedReachSubscribers ==
    /\ \A k \in 1..MaxOk :
          InChannel(k) ~>
             (bcData.id = k /\ bcPc = "iter" /\ bcTodo = {} /\ bcDone = bcStart)
    /\ [][bcPc = "lock" /\ bcPc' = "iter" => bcStart' = clients /\ bcData' = bcData]_vars

\* C10 witness: the update of the latest fetch of its symbol has been written
\* to a live subscriber, nothing left in the channel.
C10_Witness ==
    /\ bcPc = "iter" /\ updates = <<>>
    /\ bcData.id >= 1 /\ latest[bcData.Symbol] = bcData.id
    /\ \E c \in bcDone \cap clients : peer[c] = "up"

\* C11: with the credential missing (unset, empty or blank) main never gets
\* to serve: broadcaster and poller are never started, no connection is
\* accepted or registered, no symbol is fetched, the ranked store is not
\* written and no request is answered; once main has ended in log.Fatal all
\* of this stays so.
C11_MissingKeyStopsStartup ==
    (TrimSpace(env.key) = "" \/ mainPc = "fatal") =>
        /\ TrimSpace(env.key) = ""
        /\ mainPc \in {"boot", "fatal"}
        /\ bcPc = "off" /\ pollPc = "off"
        /\ \A c \in Conns : hPc[c] = "none" /\ ~closed[c]
        /\ clients = {}
        /\ cycleFetched = <<>> /\ nFetchOk = 0
        /\ nZAdd = 0 /\ leaderboard = <<>>
        /\ nPush = 0 /\ updates = <<>>
        /\ result = <<>>
        /\ ~ENABLED Run

\* C11 witness: main has ended in log.Fatal on a blank credential.
C11_Witness == mainPc = "fatal" /\ env.key = " "

\* C12: the ranked store holds one score per symbol, the percent change of
\* the symbol's most recent successful fetch (none for a symbol never fetched
\* successfully), whatever was recorded for it before; the one exception is
\* the symbol whose write is the poller's next step, and what is about to be
\* written for it is that percent change.
C12_LastWriteWins ==
    /\ DOMAIN leaderboard \subseteq AllSymbols
    /\ \A s \in AllSymbols :
          IF pollPc = "zadd" /\ data.Symbol = s
          THEN lastChange[s] = <<data.Change>> /\ latest[s] = data.id
          ELSE IF lastChange[s] = <<>>
          THEN s \notin DOMAIN leaderboard /\ latest[s] = 0
          ELSE s \in DOMAIN leaderboard /\ <<leaderboard[s]>> = lastChange[s]

\* C12 witness: MSFT was recorded twice, first at 10 (the update of that
\* fetch is the one the broadcaster took), then at -100; the store holds the
\* one entry MSFT at -100.
C12_Witness ==
    /\ pollPc = "tick" /\ nZAdd = 2
    /\ bcData.id = 1 /\ bcData.Symbol = "MSFT" /\ bcData.Change = 10
    /\ latest["MSFT"] = 2
    /\ leaderboard = ("MSFT" :> -100)

ExampleBoard == ("AAPL" :> 5) @@ ("GOOGL" :> -2) @@ ("MSFT" :> 10)

\* The list r is a reading of the whole of board, highest score first.
DescendingReadOf(r, board) ==
    /\ Len(r) = Cardinality(DOMAIN board)
    /\ { r[i].Member : i \in 1..Len(r) } = DOMAIN board
    /\ \A i \in 1..Len(r) : r[i].Score = board[r[i].Member]
    /\ \A i \in 1..(Len(r) - 1) : r[i].Score >= r[i + 1].Score

\* C13: whenever the leaderboard is read, between any two steps of the
\* poller, the answer lists every symbol in the ranked store exactly once with
\* its score, highest score first; scores AAPL 5, GOOGL -2, MSFT 10 are
\* answered as MSFT, AAPL, GOOGL.
C13_ReadDescending ==
    [][result' # result =>
         /\ DescendingReadOf(result', leaderboard)
         /\ leaderboard = ExampleBoard =>
               [i \in 1..3 |-> result'[i].Member] = <<"MSFT", "AAPL", "GOOGL">>]_vars

\* C13 witness: the store was read after the poller's first write of a cycle
\* and before its push: MSFT and GOOGL as found at startup, AAPL last with the
\* score the poller has just recorded.
C13_Witness ==
    /\ pollPc = "push" /\ nZAdd = 1
    /\ Len(result) = 3
    /\ result[1].Member = "MSFT"
    /\ result[3] = [Score |-> -100, Member |-> "AAPL"]
    /\ result = ZRevRangeWithScores(leaderboard)

\* A step that begins a poll cycle.
CycleBegins == pollPc \in {"off", "start", "tick"} /\ pollPc' = "fetch"

\* C14: once started the poller begins its first cycle at once, without
\* taking a tick from the ticker, and runs it to the end over all configured
\* symbols; every later cycle begins from the wait for the ticker and takes
\* one tick; no cycle begins in any other way.
C14_FirstCycleBeforeTick ==
    /\ [](pollPc = "start" =>
            ~ticks /\ nFetchOk = 0 /\ cycleFetched = <<>> /\ ENABLED UpdateBegin)
    /\ [][CycleBegins =>
            /\ pollIdx' = 1 /\ pollSyms' = getSymbols(env.symbols)
            /\ IF pollPc = "start" THEN ~ticks /\ ~ticks'
               ELSE pollPc = "tick" /\ ticks']_vars
    /\ [][pollPc' = "start" => pollPc \in {"off", "start"}]_vars
    /\ [][ticks' # ticks => pollPc = "tick" /\ CycleBegins]_vars
    /\ [](~ticks /\ pollPc = "tick" => cycleFetched = getSymbols(env.symbols))

\* C14 witness: the first cycle is over, with both symbols written to the
\* ranked store and put on the channel, and no tick has been taken yet.
C14_Witness ==
    /\ ~ticks /\ pollPc = "tick"
    /\ nZAdd = 2 /\ nSent = 2 /\ Len(updates) + nDeq = 2
    /\ DOMAIN leaderboard = {"AAPL", "GOOGL"}

\* Position of a symbol in the configured list (the lists of the model name
\* no symbol twice).
Pos(s) == CHOOSE i \in 1..Len(getSymbols(env.symbols)) : getSymbols(env.symbols)[i] = s

\* The updates of channel content ch that come from fetches after the first
\* `base` successful ones stand in configured symbol order.
InCycleOrder(ch, base) ==
    \A i \in 1..(Len(ch) - 1) :
        ch[i].id > base => Pos(ch[i].Symbol) < Pos(ch[i + 1].Symbol)

\* C15: inside a cycle the poller is at the symbols one after the other in
\* configured order; when the fetch of a symbol starts, the ranked-store
\* write and the push of every symbol fetched successfully before it are
\* done; write and push are for the symbol at the current position; and the
\* updates of the running cycle that the channel holds stand in configured
\* symbol order, also after the cycle's last push.
C15_ConfiguredOrder ==
    /\ [](pollPc \in {"fetch", "zadd", "push"} =>
            /\ pollSyms = getSymbols(env.symbols)
            /\ cycleFetched =
                 SubSeq(pollSyms, 1, IF pollPc = "fetch" THEN pollIdx - 1 ELSE pollIdx))
    /\ [](pollPc = "fetch" => nZAdd = nFetchOk /\ nPush = nFetchOk)
    /\ [](pollPc \in {"zadd", "push"} =>
            /\ data.Symbol = pollSyms[pollIdx]
            /\ data.id = nFetchOk
            /\ nFetchOk > cycleBase)
    /\ [](InCycleOrder(updates, cycleBase))
    /\ [][PushStep => InCycleOrder(updates', cycleBase)]_vars
    /\ [][pollIdx' # pollIdx => pollIdx' \in {0, pollIdx + 1}]_vars

\* C15 witness: the first cycle is over, both symbols were fetched
\* successfully, and the channel holds AAPL's update before GOOGL's.
C15_Witness ==
    /\ ~ticks /\ pollPc = "tick"
    /\ env.symbols = <<"">>
    /\ Len(updates) = 2
    /\ updates[1].Symbol = "AAPL" /\ updates[1].id = 1
    /\ updates[2].Symbol = "GOOGL" /\ updates[2].id = 2

\* C16: the registry is read and changed only under clientsMux.  The
\* broadcaster holds the mutex exactly while it ranges over the registry, and
\* for that time the registry is what it was when the range began, less the
\* connections the range itself has removed after a failed write; a handler
\* adds or removes its own connection, and nothing else, only in a step that
\* finds the mutex free, so never while the range is under way; the poller
\* never changes the registry.
C16_RegistryUnderLock ==
    /\ [](clientsMux \in {0, BcTask})
    /\ [](clientsMux = BcTask <=> bcPc = "iter")
    /\ [](bcPc = "iter" =>
            /\ bcTodo \subseteq clients
            /\ clients = bcStart \ { c \in bcDone : closed[c] })
    /\ [][clients' # clients =>
            IF clientsMux = BcTask
            THEN /\ hPc' = hPc /\ pollerVars' = pollerVars
                 /\ \E c \in Conns : WriteFailed(c) /\ clients' = clients \ {c}
            ELSE /\ bcPc # "iter" /\ bcVars' = bcVars /\ pollerVars' = pollerVars
                 /\ clientsMux' = 0
                 /\ \E c \in Conns :
                      /\ hPc'[c] # hPc[c]
                      /\ \A d \in Conns \ {c} : hPc'[d] = hPc[d]
                      /\ \/ hPc[c] = "none" /\ clients' = clients \cup {c}
                         \/ hPc[c] = "remove" /\ clients' = clients \ {c}]_vars

\* C16 witness: the range over the registry is under way, one connection
\* written, one to go whose handler has left its read loop and waits for the
\* mutex to remove it.
C16_Witness ==
    /\ bcPc = "iter" /\ clientsMux = BcTask
    /\ bcDone # {}
    /\ \E c \in bcTodo : hPc[c] = "remove" /\ c \in clients /\ ~ENABLED HandlerDefer(c)

\* The step in which the handler of connection c runs its deferred removal.
DeferStep(c) == hPc[c] = "remove" /\ hPc'[c] = "done"

\* C17: the handler's removal of a connection the broadcaster has already
\* evicted can run as soon as the mutex is free and leaves the registry
\* exactly as it is; in any case it takes out its own connection and no
\* other, and touches no other connection.  The broadcaster evicts only
\* connections it finds registered, so it never meets one the handler has
\* removed.  After either removal or both the connection is out of the
\* registry.
C17_RemovalIdempotent ==
    /\ [][\A c \in Conns : DeferStep(c) =>
            /\ c \notin clients => clients' = clients
            /\ clients' = clients \ {c}
            /\ \A d \in Conns \ {c} : closed'[d] = closed[d] /\ hPc'[d] = hPc[d]]_vars
    /\ [][\A c \in Conns : WriteFailed(c) =>
            c \in clients /\ hPc[c] \in {"read", "remove"} /\ clients' = clients \ {c}]_vars
    /\ [](\A c \in Conns : hPc[c] = "remove" /\ clientsMux = 0 => ENABLED HandlerDefer(c))
    /\ [](\A c \in Conns : closed[c] \/ hPc[c] = "done" => c \notin clients)

\* C17 witness: the broadcaster has evicted a connection after a failed
\* write, another connection is registered, and the handler of the evicted
\* one is about to run its removal.
C17_Witness ==
    \E c \in Conns :
        /\ hPc[c] = "remove" /\ closed[c] /\ c \notin clients
        /\ clients # {}
        /\ ENABLED HandlerDefer(c)

\* C18: every write to a connection is a step of the broadcaster inside its
\* range over the registry, holding the mutex: it writes the update taken
\* from the channel to one connection the range has yet to produce, and it is
\* no step of the poller, of main or of any handler.  There is one
\* broadcaster: it is started by main, once, and never ends.
C18_OnlyBroadcasterWrites ==
    /\ [][(lastOut' # lastOut \/ \E c \in Conns : WriteStep(c)) =>
            /\ bcPc = "iter" /\ bcPc' = "iter" /\ clientsMux = BcTask
            /\ \E c \in bcTodo :
                 /\ bcDone' = bcDone \cup {c}
                 /\ bcTodo' = bcTodo \ {c}
                 /\ c \in clients /\ hPc[c] \in {"read", "remove"}
            /\ lastOut' = bcData.id /\ bcData' = bcData
            /\ hPc' = hPc
            /\ pollerVars' = pollerVars /\ updates' = updates
            /\ mainPc' = mainPc]_vars
    /\ [][bcPc # bcPc' /\ "off" \in {bcPc, bcPc'} =>
            mainPc = "boot" /\ mainPc' = "serving" /\ bcPc' = "recv"]_vars
    /\ [](mainPc = "serving" <=> bcPc # "off")

\* C18 witness: one iteration has written to two connections whose handlers
\* sit in their read loops, while the poller is inside a cycle.
C18_Witness ==
    /\ bcPc = "iter" /\ Cardinality(bcDone) = 2 /\ bcDone \subseteq clients
    /\ lastOut = bcData.id
    /\ \A c \in bcDone : hPc[c] = "read"
    /\ pollPc = "fetch"

\* C19: the poller has a next step in every state, whoever holds clientsMux
\* and however full the channel is, and its steps leave the mutex and the
\* registry alone; the broadcaster holds the mutex only inside its range,
\* never while it waits for the channel or for the mutex, and inside the
\* range it has a next step; while it holds the mutex no handler can add or
\* remove, and once it does not, every handler that wants to remove can.  So
\* with the broadcaster stalled for ever, the poller still ends every cycle
\* and does the ranked-store write of every successful fetch.
C19_PollerNeverWaits ==
    /\ [](pollPc # "off" => ENABLED fetchLoop)
    /\ [](pollPc = "push" => ENABLED PushUpdate)
    /\ [][pollerVars' # pollerVars =>
            clientsMux' = clientsMux /\ clients' = clients /\ bcVars' = bcVars]_vars
    /\ [](bcPc \in {"off", "recv", "lock"} => clientsMux = 0)
    /\ [](bcPc = "lock" => ENABLED BroadcastLock)
    /\ [](bcPc = "iter" => clientsMux = BcTask /\ ENABLED broadcaster)
    /\ [](\A c \in Conns :
            IF clientsMux = BcTask
            THEN ~ENABLED HandlerAdd(c) /\ ~ENABLED HandlerDefer(c)
            ELSE hPc[c] = "remove" => ENABLED HandlerDefer(c))
    /\ (pollPc \in {"fetch", "zadd", "push"}) ~> (pollPc = "tick" /\ nZAdd = nFetchOk)

\* C19 witness: the broadcaster is inside a write to a connection whose
\* handler waits for the mutex to remove it, the channel is full, and the
\* poller has ended a cycle with all its writes done.
C19_Witness ==
    /\ bcPc = "iter" /\ clientsMux = BcTask
    /\ bcTodo = {1} /\ hPc[1] = "remove"
    /\ Len(updates) = ChanCap
    /\ pollPc = "tick" /\ nZAdd = nFetchOk /\ nZAdd > Backlog

\* C20: an update the channel accepted leaves the channel only by being taken
\* by the broadcaster, is taken (under fair scheduling), and is never in the
\* channel or taken again; its iteration writes it at most once to each
\* connection, and only to connections registered when the iteration began
\* and still registered at the write; registering writes nothing, happens
\* outside any iteration, and every update taken afterwards is newer than
\* every update written or taken before, so nothing is written again later.
C20_OnceNoReplay ==
    /\ [](\A i \in 1..Len(updates) : updates[i].id > bcData.id)
    /\ [][updates' # updates =>
            \/ /\ nDeq' = nDeq + 1 /\ bcPc = "recv"
               /\ bcData' = Head(updates) /\ updates' = Tail(updates)
            \/ /\ PushStep /\ nDeq' = nDeq
               /\ updates' = Append(updates, data)]_vars
    /\ [][nDeq' # nDeq =>
            /\ updates' # updates
            /\ bcData'.id > bcData.id /\ bcData'.id > lastOut]_vars
    /\ \A k \in 1..MaxOk : InChannel(k) ~> (bcData.id = k /\ ~InChannel(k))
    /\ [][\A c \in Conns : WriteStep(c) =>
            /\ c \in bcTodo /\ c \notin bcTodo'
            /\ c \in bcStart /\ c \in clients
            /\ bcData' = bcData /\ lastOut' = bcData.id]_vars
    /\ [](bcPc = "iter" => bcTodo \cap bcDone = {} /\ bcTodo \cup bcDone \subseteq bcStart)
    /\ [](lastOut <= bcData.id)
    /\ [][\A c \in Conns : c \in clients' /\ c \notin clients =>
            /\ bcPc # "iter" /\ c \notin bcTodo'
            /\ bcDone' = bcDone /\ lastOut' = lastOut
            /\ bcData' = bcData /\ updates' = updates]_vars

\* C20 witness: the first update was accepted, taken and broadcast to an
\* empty registry, so written to nobody; a connection has registered since;
\* the update is neither in the channel nor written to it.
C20_Witness ==
    /\ nSent = 1 /\ nDeq = 1 /\ bcData.id = 1
    /\ bcPc = "recv" /\ updates = <<>>
    /\ lastOut = 0
    /\ clients = {1} /\ hPc[1] = "read" /\ peer[1] = "up"

====
